---- MODULE Spec2Model ----
(***************************************************************************)
(* Model of hedwig/validator.py: MessageValidator (schema completeness     *)
(* check, message validation, the human-uuid format predicate and the      *)
(* format-checker registry it is attached to) and FormatValidator.         *)
(*                                                                         *)
(* Python values are tagged records: a str is [t |-> "str", s |-> chars]   *)
(* with chars a sequence of one-character strings, an int is               *)
(* [t |-> "int", n |-> n], None is [t |-> "none"].                         *)
(***************************************************************************)
EXTENDS Integers, Sequences, FiniteSets, TLC

VARIABLES
    \* ---- check_human_uuid (one call) ----
    instance,          \* the argument of check_human_uuid
    result,            \* its return value, or Pending before the call
    \* ---- check_schema (one call, statement by statement) ----
    schema,            \* the document handed to check_schema
    routing,           \* keys of settings.HEDWIG_MESSAGE_ROUTING
    pc,                \* position inside check_schema
    msg_types_found,   \* the found-flags (line 63)
    errors,            \* the collected error list (line 66)
    todoTypes,         \* message types the outer loop has not visited yet
    curType,           \* the message type of the running inner loop
    todoVersions,      \* version keys the inner loop has not visited yet
    todoFlags,         \* found-flags the loop of line 83 has not visited yet
    raised,            \* what check_schema raised, "none" if it returned
    \* ---- module import, validator life cycle, validate ----
    imp,               \* position in the class body of MessageValidator
    clsCheckers,       \* jsonschema.FormatChecker.checkers (class attribute)
    checker,           \* MessageValidator.checker.checkers (instance attribute)
    lastReg,           \* the last registration made
    validator,         \* the constructed MessageValidator's schema, or NoDoc
    checked,           \* documents check_schema has been called on -> outcome
    call               \* record of the call of validate that has just returned

vars == <<instance, result, schema, routing, pc, msg_types_found, errors,
          todoTypes, curType, todoVersions, todoFlags, raised, imp, clsCheckers, checker,
          lastReg, validator, checked, call>>

uuidVars == <<instance, result>>
checkVars == <<schema, routing, pc, msg_types_found, errors, todoTypes,
               curType, todoVersions, todoFlags, raised>>
lifeVars == <<imp, clsCheckers, checker, lastReg, validator, checked, call>>

(***************************************************************************)
(* Python values                                                           *)
(***************************************************************************)
PyStr(chars) == [t |-> "str", s |-> chars]
PyInt(n) == [t |-> "int", n |-> n]
None == [t |-> "none"]
PyBool(b) == [t |-> "bool", b |-> b]
Pending == [t |-> "pending"]
IsStr(v) == v.t = "str"

\* str.startswith(prefix), character by character
StartsWith(s, prefix) ==
    /\ Len(prefix) <= Len(s)
    /\ \A i \in 1..Len(prefix) : s[i] = prefix[i]

(***************************************************************************)
(* _human_uuid_re and check_human_uuid                                     *)
(***************************************************************************)
HexLower == {"0", "1", "2", "3", "4", "5", "6", "7", "8", "9",
             "a", "b", "c", "d", "e", "f"}

\* the quantifiers {8}-{4}-{4}-{4}-{12} of the pattern
GroupLens == <<8, 4, 4, 4, 12>>

RECURSIVE SumTo(_, _)
SumTo(lens, k) == IF k = 0 THEN 0 ELSE lens[k] + SumTo(lens, k - 1)

\* positions of the four literal hyphens, and the length the pattern consumes
HyphenPos == {SumTo(GroupLens, k) + k : k \in 1..(Len(GroupLens) - 1)}
PatternLen == SumTo(GroupLens, Len(GroupLens)) + Len(GroupLens) - 1

\* the body of the pattern between ^ and $, matched on the first PatternLen
\* characters of s
BodyMatches(s) ==
    /\ Len(s) >= PatternLen
    /\ \A i \in 1..PatternLen :
          IF i \in HyphenPos THEN s[i] = "-" ELSE s[i] \in HexLower

\* Python's $ (no re.MULTILINE): the end of the string, or just before a
\* newline that is the last character of the string
DollarAt(s, n) ==
    \/ n = Len(s)
    \/ n = Len(s) - 1 /\ s[Len(s)] = "\n"

\* _human_uuid_re.match(s): ^ body $
HumanUuidReMatch(s) == BodyMatches(s) /\ DollarAt(s, PatternLen)

check_human_uuid(x) ==
    IF ~IsStr(x) THEN TRUE ELSE HumanUuidReMatch(x.s)

(***************************************************************************)
(* Inputs of check_human_uuid: a canonical UUID, edited                    *)
(***************************************************************************)
CanonUuid ==
    <<"1","2","3","e","4","5","6","7","-","e","8","9","b","-","1","2","d","3",
      "-","a","4","5","6","-","4","2","6","6","1","4","1","7","4","0","0","0">>

BadUuid == <<"b","a","d","-","u","u","i","d">>

\* characters that replace one of the canonical string, or pad it
EditChars == {"0", "f", "A", "g", "-", "\n"}
PadChars == {"0", "\n", "-"}

\* bound: how many characters are put before, and after, the string
MaxPad == 1

RECURSIVE PadsUpTo(_)
PadsUpTo(n) ==
    IF n = 0 THEN {<<>>}
    ELSE LET shorter == PadsUpTo(n - 1)
         IN  shorter \cup {<<c>> \o p : c \in PadChars, p \in shorter}

Substituted ==
    {CanonUuid} \cup
    {[CanonUuid EXCEPT ![i] = c] : i \in 1..Len(CanonUuid), c \in EditChars}

Deleted ==
    {SubSeq(CanonUuid, 1, i - 1) \o SubSeq(CanonUuid, i + 1, Len(CanonUuid)) :
        i \in 1..Len(CanonUuid)}

UuidStrings ==
    {h \o m \o t : h \in PadsUpTo(MaxPad), m \in Substituted, t \in PadsUpTo(MaxPad)}
    \cup Deleted \cup {BadUuid, <<>>}

UuidInputs == {PyStr(s) : s \in UuidStrings} \cup {PyInt(5), None}

\* the 36-character canonical form, stated independently of the regex engine
IsCanonicalForm(s) ==
    /\ Len(s) = PatternLen
    /\ \A i \in 1..Len(s) :
          IF i \in HyphenPos THEN s[i] = "-" ELSE s[i] \in HexLower

(***************************************************************************)
(* Containers: a dict is [t |-> "dict", d |-> function on its keys], keys  *)
(* being character sequences; a list is [t |-> "list", items |-> seq].     *)
(***************************************************************************)
PyDict(f) == [t |-> "dict", d |-> f]
PyList(items) == [t |-> "list", items |-> items]
EmptyDict == PyDict(<<>>)

IsDict(v) == v.t = "dict"

\* Python truthiness ("if not x")
Truthy(v) ==
    CASE v.t = "none" -> FALSE
      [] v.t = "dict" -> DOMAIN v.d # {}
      [] v.t = "list" -> Len(v.items) > 0
      [] v.t = "str"  -> Len(v.s) > 0
      [] v.t = "int"  -> v.n # 0
      [] v.t = "bool" -> v.b

\* dict.get(key)
DictGet(v, key) == IF key \in DOMAIN v.d THEN v.d[key] ELSE None

K_id == <<"i", "d">>
K_schemas == <<"s", "c", "h", "e", "m", "a", "s">>

(***************************************************************************)
(* distutils.version.StrictVersion, as check_schema uses it (line 77):     *)
(* version_re = ^(\d+) \. (\d+) (\. (\d+))? ([ab](\d+))?$  (VERBOSE|ASCII) *)
(***************************************************************************)
Digits == {"0", "1", "2", "3", "4", "5", "6", "7", "8", "9"}

DigitVal ==
    [c \in Digits |->
        CASE c = "0" -> 0 [] c = "1" -> 1 [] c = "2" -> 2 [] c = "3" -> 3
          [] c = "4" -> 4 [] c = "5" -> 5 [] c = "6" -> 6 [] c = "7" -> 7
          [] c = "8" -> 8 [] c = "9" -> 9]

\* s[i..j] is a non-empty run of digits
DigitRun(s, i, j) == i <= j /\ \A k \in i..j : s[k] \in Digits

\* ([ab](\d+))? matched on s[j..n]
PreReleaseAt(s, j, n) ==
    \/ j = n + 1
    \/ j < n /\ s[j] \in {"a", "b"} /\ DigitRun(s, j + 1, n)

\* (\. (\d+))? ([ab](\d+))? matched on s[i..n]
PatchAt(s, i, n) ==
    \/ PreReleaseAt(s, i, n)
    \/ \E c \in (i + 1)..n :
          s[i] = "." /\ DigitRun(s, i + 1, c) /\ PreReleaseAt(s, c + 1, n)

\* the end a of the major component when version_re matches s up to n
MajorEnds(s, n) ==
    {a \in 1..n : /\ DigitRun(s, 1, a)
                  /\ a + 2 <= n
                  /\ s[a + 1] = "."
                  /\ \E b \in (a + 2)..n :
                        DigitRun(s, a + 2, b) /\ PatchAt(s, b + 1, n)}

\* where $ may stand
DollarEnds(s) == {n \in 0..Len(s) : DollarAt(s, n)}

RECURSIVE DecimalValue(_)
DecimalValue(ds) ==
    IF ds = <<>> THEN 0
    ELSE 10 * DecimalValue(SubSeq(ds, 1, Len(ds) - 1)) + DigitVal[ds[Len(ds)]]

\* StrictVersion(vstring): ok (and version[0]), or ValueError
StrictVersion(vstring) ==
    LET ends == UNION {MajorEnds(vstring, n) : n \in DollarEnds(vstring)}
    IN  IF ends = {}
        THEN [ok |-> FALSE, major |-> 0]
        ELSE LET a == CHOOSE e \in ends : TRUE
             IN  [ok |-> TRUE, major |-> DecimalValue(SubSeq(vstring, 1, a))]

(***************************************************************************)
(* Schema documents given to check_schema.  A document is the decoded      *)
(* JSON/YAML mapping; version keys are strings, as JSON object keys are.   *)
(***************************************************************************)
\* schema root id of the documents
Root == <<"h", ":", "r">>

\* message type names
TypeA == <<"a">>
TypeB == <<"b">>
TypeNames == {TypeA, TypeB}

\* version keys: 1.0, 10.1, 2.1b1, 0.1.2 parse; 1 and 1.x do not
V_1_0 == <<"1", ".", "0">>
V_10_1 == <<"1", "0", ".", "1">>
V_2_1b1 == <<"2", ".", "1", "b", "1">>
V_0_1_2 == <<"0", ".", "1", ".", "2">>
V_1 == <<"1">>
V_1_x == <<"1", ".", "x">>
VersionPool == {V_1_0, V_10_1, V_2_1b1, V_0_1_2, V_1, V_1_x}

\* bound: version keys under one message type
MaxVersions == 2

\* the sub-schema put under every version key of these documents (its
\* content plays no part in check_schema)
OpaqueDefinition == EmptyDict

VersionDicts ==
    {PyDict([v \in S |-> OpaqueDefinition]) :
        S \in {S \in SUBSET VersionPool : S # {} /\ Cardinality(S) <= MaxVersions}}

\* what a message type may map to: a dict of versions, an empty dict, or a
\* list (holding what would be a version key)
VersionsValues == VersionDicts \cup {EmptyDict, PyList(<<PyStr(V_1_0)>>)}

SchemasDicts ==
    {PyDict(f) : f \in UNION {[T -> VersionsValues] : T \in (SUBSET TypeNames) \ {{}}}}

\* the value under 'schemas': missing, empty, a non-empty list, or a dict
Missing == [t |-> "missing"]
SchemasValues == SchemasDicts \cup {Missing, EmptyDict, PyList(<<PyStr(TypeA)>>)}

MakeDoc(idv, sv) ==
    PyDict(IF sv = Missing THEN (K_id :> idv)
           ELSE (K_id :> idv) @@ (K_schemas :> sv))

\* 'id' is a string, or (a document the Draft 4 meta-schema rejects) a number
CheckDocs == {MakeDoc(idv, sv) : idv \in {PyStr(Root), PyInt(5)}, sv \in SchemasValues}

\* keys of settings.HEDWIG_MESSAGE_ROUTING: (message type, major version)
RoutingPool == {<<TypeA, 1>>, <<TypeA, 2>>, <<TypeB, 10>>}

(***************************************************************************)
(* check_schema, statement by statement                                    *)
(***************************************************************************)
NoRaise == [exc |-> "none"]

\* Draft4Validator.check_schema (line 61): the Draft 4 meta-schema; of the
\* keywords these documents carry it constrains 'id' (type string)
MetaSchemaErrors(doc) ==
    IF K_id \in DOMAIN doc.d /\ doc.d[K_id].t # "str"
    THEN <<[e |-> "metaschema", path |-> K_id]>>
    ELSE <<>>

ErrNoSchemas == [e |-> "no_schemas"]
ErrInvalidDefinition(msg_type) == [e |-> "invalid_definition", msg_type |-> msg_type]
ErrInvalidVersion(msg_version, msg_type) ==
    [e |-> "invalid_version", msg_version |-> msg_version, msg_type |-> msg_type]
ErrNotFound(msg_type, major_version) ==
    [e |-> "not_found", msg_type |-> msg_type, major_version |-> major_version]

\* lines 78-79, with an unguarded assignment instead
MarkFoundUnguarded(found, msg_type, major) ==
    (<<msg_type, major>> :> TRUE) @@ found

\* lines 78-79
MarkFound(found, msg_type, major) ==
    IF <<msg_type, major>> \in DOMAIN found
    THEN [found EXCEPT ![<<msg_type, major>>] = TRUE]
    ELSE found

Finish(exc) ==
    /\ raised' = exc
    /\ pc' = "done"
    /\ checked' = (schema :> exc.exc) @@ checked

\* line 61: super().check_schema(schema) raises on the first meta-schema error
CS_Super ==
    /\ pc = "line61"
    /\ IF MetaSchemaErrors(schema) # <<>>
       THEN /\ Finish([exc |-> "SchemaError", origin |-> "metaschema",
                       errors |-> <<Head(MetaSchemaErrors(schema))>>])
            /\ UNCHANGED <<msg_types_found, errors>>
       ELSE \* lines 63-66
            /\ msg_types_found' = [k \in routing |-> FALSE]
            /\ errors' = <<>>
            /\ pc' = "line67"
            /\ UNCHANGED <<raised, checked>>
    /\ UNCHANGED <<schema, routing, todoTypes, curType, todoVersions, todoFlags>>
    /\ UNCHANGED <<uuidVars, imp, clsCheckers, checker, lastReg, validator, call>>

\* lines 67-70: the test of schema.get('schemas'), and the call of .items()
CS_TestSchemas ==
    /\ pc = "line67"
    /\ LET schemas == DictGet(schema, K_schemas)
       IN  IF ~Truthy(schemas)
           THEN /\ errors' = Append(errors, ErrNoSchemas)
                /\ pc' = "line83"
                /\ todoFlags' = DOMAIN msg_types_found
                /\ UNCHANGED <<todoTypes, raised, checked>>
           ELSE IF ~IsDict(schemas)
           THEN \* a list or a string has no .items()
                /\ Finish([exc |-> "AttributeError"])
                /\ UNCHANGED <<errors, todoTypes, todoFlags>>
           ELSE /\ todoTypes' = DOMAIN schemas.d
                /\ pc' = "line70"
                /\ UNCHANGED <<errors, raised, checked, todoFlags>>
    /\ UNCHANGED <<schema, routing, msg_types_found, curType, todoVersions>>
    /\ UNCHANGED <<uuidVars, imp, clsCheckers, checker, lastReg, validator, call>>

\* lines 70-75: one round of the loop over the message types
CS_NextType ==
    /\ pc = "line70"
    /\ IF todoTypes = {}
       THEN /\ pc' = "line83"
            /\ todoFlags' = DOMAIN msg_types_found
            /\ UNCHANGED <<errors, todoTypes, curType, todoVersions>>
       ELSE \E msg_type \in todoTypes :
            LET versions == schema.d[K_schemas].d[msg_type]
            IN  /\ todoTypes' = todoTypes \ {msg_type}
                /\ UNCHANGED todoFlags
                /\ IF ~IsDict(versions) \/ ~Truthy(versions)
                   THEN /\ errors' = Append(errors, ErrInvalidDefinition(msg_type))
                        /\ UNCHANGED <<pc, curType, todoVersions>>
                   ELSE /\ curType' = msg_type
                        /\ todoVersions' = DOMAIN versions.d
                        /\ pc' = "line75"
                        /\ UNCHANGED errors
    /\ UNCHANGED <<schema, routing, msg_types_found, raised, checked>>
    /\ UNCHANGED <<uuidVars, imp, clsCheckers, checker, lastReg, validator, call>>

\* lines 75-81: one round of the loop over the versions of curType
CS_NextVersion ==
    /\ pc = "line75"
    /\ IF todoVersions = {}
       THEN /\ pc' = "line70"
            /\ UNCHANGED <<errors, msg_types_found, todoVersions>>
       ELSE \E msg_version \in todoVersions :
            LET version == StrictVersion(msg_version)
            IN  /\ todoVersions' = todoVersions \ {msg_version}
                /\ UNCHANGED pc
                /\ IF version.ok
                   THEN /\ msg_types_found' =
                              MarkFound(msg_types_found, curType, version.major)
                        /\ UNCHANGED errors
                   ELSE /\ errors' =
                              Append(errors, ErrInvalidVersion(msg_version, curType))
                        /\ UNCHANGED msg_types_found
    /\ UNCHANGED <<schema, routing, todoTypes, curType, raised, checked, todoFlags>>
    /\ UNCHANGED <<uuidVars, imp, clsCheckers, checker, lastReg, validator, call>>

\* lines 83-85: one round of the loop over the found-flags
CS_Report ==
    /\ pc = "line83"
    /\ todoFlags # {}
    /\ \E k \in todoFlags :
          /\ todoFlags' = todoFlags \ {k}
          /\ errors' = IF msg_types_found[k] THEN errors
                       ELSE Append(errors, ErrNotFound(k[1], k[2]))
    /\ UNCHANGED <<schema, routing, pc, msg_types_found, todoTypes, curType,
                   todoVersions, raised, checked>>
    /\ UNCHANGED <<uuidVars, imp, clsCheckers, checker, lastReg, validator, call>>

\* lines 87-88
CS_Raise ==
    /\ pc = "line83"
    /\ todoFlags = {}
    /\ IF errors # <<>>
       THEN Finish([exc |-> "SchemaError", origin |-> "hedwig", errors |-> errors])
       ELSE Finish(NoRaise)
    /\ UNCHANGED <<schema, routing, msg_types_found, errors, todoTypes, curType,
                   todoVersions, todoFlags>>
    /\ UNCHANGED <<uuidVars, imp, clsCheckers, checker, lastReg, validator, call>>

CheckSchemaStep ==
    \/ CS_Super
    \/ CS_TestSchemas
    \/ CS_NextType
    \/ CS_NextVersion
    \/ CS_Report
    \/ CS_Raise

(***************************************************************************)
(* The format-checker registry (jsonschema.FormatChecker).  A table maps   *)
(* a format name to the name of a predicate.                               *)
(***************************************************************************)
F_human_uuid == <<"human-uuid">>
F_email == <<"email">>
F_custom == <<"custom">>

\* FormatChecker.checkers as jsonschema itself leaves it (its built-ins)
BuiltinClsCheckers == (F_email :> "is_email")

\* a predicate applied to a value
ApplyPred(pred, x) ==
    CASE pred = "check_human_uuid" -> check_human_uuid(x)
      [] pred = "is_email" -> (~IsStr(x) \/ \E i \in 1..Len(x.s) : x.s[i] = "@")
      [] pred = "reject_strings" -> ~IsStr(x)
      [] pred = "accept_all" -> TRUE

\* FormatChecker() (line 18): the new instance copies the class table as it
\* is at that moment
NewFormatChecker(classTable) == classTable

\* a registration that refuses to replace an entry
ChecksKeepFirst(table, format, pred) ==
    IF format \in DOMAIN table THEN table ELSE (format :> pred) @@ table

\* FormatChecker.checks / cls_checks (line 91): table[format] = func
Checks(table, format, pred) == (format :> pred) @@ table

\* format_checker is None (FormatValidator, line 105)
NoChecker == [t |-> "none"]

\* FormatChecker.check as the 'format' keyword uses it: a format that is
\* not in the table passes
FormatCheck(table, x, format) ==
    IF format \notin DOMAIN table THEN TRUE ELSE ApplyPred(table[format], x)

(***************************************************************************)
(* Structural checking (Draft4Validator.iter_errors, lines 55 and 108),    *)
(* for the keywords type, required, properties and format.                 *)
(***************************************************************************)
K_type == <<"type">>
K_required == <<"required">>
K_properties == <<"properties">>
K_format == <<"format">>
T_object == <<"object">>
T_string == <<"string">>
T_integer == <<"integer">>

F_id == <<"id">>
F_name == <<"name">>
F_tag == <<"tag">>
\* the order properties are visited in
FieldOrder == <<F_id, F_name, F_tag>>

IsType(x, ty) ==
    CASE ty = T_object -> x.t = "dict"
      [] ty = T_string -> x.t = "str"
      [] ty = T_integer -> x.t = "int"
      [] OTHER -> TRUE

Violation(path, keyword, detail) ==
    [path |-> path, keyword |-> keyword, detail |-> detail]

RECURSIVE IterErrors(_, _, _, _)
RECURSIVE PropertyErrors(_, _, _, _, _)

\* the violations of the properties FieldOrder[i..], in order
PropertyErrors(x, props, table, path, i) ==
    IF i > Len(FieldOrder) THEN <<>>
    ELSE LET f == FieldOrder[i]
             here == IF f \in DOMAIN props.d /\ f \in DOMAIN x.d
                     THEN IterErrors(x.d[f], props.d[f], table, Append(path, f))
                     ELSE <<>>
         IN  here \o PropertyErrors(x, props, table, path, i + 1)

\* every violation of x against the schema sch (a mapping), in order
IterErrors(x, sch, table, path) ==
    LET has(k) == k \in DOMAIN sch.d
        typeErrs ==
            IF has(K_type) /\ ~IsType(x, sch.d[K_type].s)
            THEN <<Violation(path, "type", sch.d[K_type].s)>> ELSE <<>>
        Absent(p) == p.s \notin DOMAIN x.d
        missing ==
            IF has(K_required) /\ IsDict(x)
            THEN SelectSeq(sch.d[K_required].items, Absent) ELSE <<>>
        reqErrs ==
            [i \in 1..Len(missing) |-> Violation(path, "required", missing[i].s)]
        propErrs ==
            IF has(K_properties) /\ IsDict(x)
            THEN PropertyErrors(x, sch.d[K_properties], table, path, 1) ELSE <<>>
        fmtErrs ==
            IF /\ has(K_format)
               /\ table # NoChecker
               /\ ~FormatCheck(table, x, sch.d[K_format].s)
            THEN <<Violation(path, "format", sch.d[K_format].s)>> ELSE <<>>
    IN  typeErrs \o reqErrs \o propErrs \o fmtErrs

(***************************************************************************)
(* Reference resolution (self.resolver.resolve, line 51): RefResolver of   *)
(* jsonschema, whose store holds the validator's schema under its id.      *)
(***************************************************************************)
\* index of the first "#" of s, or Len(s) + 1
HashPos(s) ==
    IF \E i \in 1..Len(s) : s[i] = "#"
    THEN CHOOSE i \in 1..Len(s) : s[i] = "#" /\ \A j \in 1..(i - 1) : s[j] # "#"
    ELSE Len(s) + 1

\* urldefrag(url)
UrlPart(s) == SubSeq(s, 1, HashPos(s) - 1)
FragmentPart(s) == SubSeq(s, HashPos(s) + 1, Len(s))

RECURSIVE LStripSlash(_)
LStripSlash(s) ==
    IF s # <<>> /\ Head(s) = "/" THEN LStripSlash(Tail(s)) ELSE s

\* str.split("/"): the sequence of parts
RECURSIVE SplitSlash(_)
SplitSlash(s) ==
    IF \E i \in 1..Len(s) : s[i] = "/"
    THEN LET i == CHOOSE i \in 1..Len(s) : s[i] = "/" /\ \A j \in 1..(i - 1) : s[j] # "/"
         IN  <<SubSeq(s, 1, i - 1)>> \o SplitSlash(SubSeq(s, i + 1, Len(s)))
    ELSE <<s>>

Resolved(value) == [ok |-> TRUE, value |-> value]
RefResolutionError == [ok |-> FALSE]

\* RefResolver.resolve_fragment: walk the parts of the JSON pointer
RECURSIVE Walk(_, _)
Walk(document, parts) ==
    IF parts = <<>> THEN Resolved(document)
    ELSE IF IsDict(document) /\ Head(parts) \in DOMAIN document.d
         THEN Walk(document.d[Head(parts)], Tail(parts))
         ELSE RefResolutionError

ResolveFragment(document, fragment) ==
    LET stripped == LStripSlash(fragment)
    IN  Walk(document, IF stripped = <<>> THEN <<>> ELSE SplitSlash(stripped))

\* the result of fetching a document that is not in the store
RemoteFailed == [t |-> "remote_failed"]

\* RefResolver.resolve(ref): the validator's own schema is in the store
\* under its id; any other url is fetched, and a failed fetch is a
\* RefResolutionError
Resolve(doc, ref, remote) ==
    IF UrlPart(ref) = doc.d[K_id].s
    THEN ResolveFragment(doc, FragmentPart(ref))
    ELSE IF remote = RemoteFailed
         THEN RefResolutionError
         ELSE ResolveFragment(remote, FragmentPart(ref))

(***************************************************************************)
(* MessageValidator.validate and FormatValidator.validate                  *)
(***************************************************************************)
ValidationError(errs) == [outcome |-> "ValidationError", errors |-> errs]
Returned == [outcome |-> "returned", errors |-> <<>>]

\* no validator constructed yet, no document under check
NoDoc == [kind |-> "nodoc"]

\* no call of validate yet
NoCall == [outcome |-> "nocall"]

\* raising with the first violation only
RaiseFirstOnly(errs) ==
    IF errs # <<>> THEN ValidationError(<<Head(errs)>>) ELSE Returned

\* raising whether or not there is a violation
RaiseAlways(errs) == ValidationError(errs)

\* lines 56-57 and 109-110: if errors: raise ValidationError(errors)
RaiseIfErrors(errs) ==
    IF errs # <<>> THEN ValidationError(errs) ELSE Returned

\* line 41
schema_root(doc) == doc.d[K_id].s

\* what one call did: the steps it reached and how it ended
CallRecord(op, doc, table, message, resolution, structChecked, end) ==
    [op |-> op, doc |-> doc, registry |-> table, message |-> message,
     resolveAttempted |-> resolution # None, resolution |-> resolution,
     structChecked |-> structChecked,
     outcome |-> end.outcome, errors |-> end.errors]

\* validate without the test of line 47
validate_no_root_test(doc, table, message, remote) ==
    LET resolution == Resolve(doc, message.schema, remote)
    IN  IF ~resolution.ok
        THEN CallRecord("validate", doc, table, message, resolution, FALSE,
                        ValidationError(<<>>))
        ELSE CallRecord("validate", doc, table, message, resolution, TRUE,
                        RaiseIfErrors(IterErrors(message.data, resolution.value,
                                                 table, <<>>)))

\* validate without the except clause of lines 52-53
validate_no_except(doc, table, message, remote) ==
    IF ~StartsWith(message.schema, schema_root(doc))
    THEN CallRecord("validate", doc, table, message, None, FALSE,
                    ValidationError(<<>>))
    ELSE LET resolution == Resolve(doc, message.schema, remote)
         IN  IF ~resolution.ok
             THEN CallRecord("validate", doc, table, message, resolution, FALSE,
                             [outcome |-> "RefResolutionError", errors |-> <<>>])
             ELSE CallRecord("validate", doc, table, message, resolution, TRUE,
                             RaiseIfErrors(IterErrors(message.data, resolution.value,
                                                      table, <<>>)))

\* lines 43-57
validate(doc, table, message, remote) ==
    IF ~StartsWith(message.schema, schema_root(doc))
    THEN \* line 48
         CallRecord("validate", doc, table, message, None, FALSE,
                    ValidationError(<<>>))
    ELSE LET resolution == Resolve(doc, message.schema, remote)
         IN  IF ~resolution.ok
             THEN \* lines 52-53
                  CallRecord("validate", doc, table, message, resolution, FALSE,
                             ValidationError(<<>>))
             ELSE \* lines 55-57
                  CallRecord("validate", doc, table, message, resolution, TRUE,
                             RaiseIfErrors(IterErrors(message.data, resolution.value,
                                                      table, <<>>)))

\* lines 107-110: FormatValidator.validate, against its own schema and with
\* no format checker
format_validate(formatSchema, data) ==
    CallRecord("format_validate", formatSchema, NoChecker,
               [schema |-> <<>>, data |-> data], Resolved(formatSchema), TRUE,
               RaiseIfErrors(IterErrors(data, formatSchema, NoChecker, <<>>)))

\* lines 25-35: the schema __init__ hands to Draft4Validator.__init__
init_schema(arg, fileDoc) == IF ~Truthy(arg) THEN fileDoc ELSE arg

(***************************************************************************)
(* Documents, messages and payloads of the life-cycle specification        *)
(***************************************************************************)
\* schemas/a/1.0 of the documents: an object with a human-uuid id, a name
\* and an optional tag of a format the application may register
UserSchema ==
    PyDict((K_type :> PyStr(T_object))
        @@ (K_required :> PyList(<<PyStr(F_id), PyStr(F_name)>>))
        @@ (K_properties :> PyDict(
                (F_id :> PyDict((K_type :> PyStr(T_string))
                             @@ (K_format :> PyStr(F_human_uuid))))
             @@ (F_name :> PyDict(K_type :> PyStr(T_string)))
             @@ (F_tag :> PyDict((K_type :> PyStr(T_string))
                              @@ (K_format :> PyStr(F_custom)))))))

\* complete for the routing (a, 1)
DocComplete == MakeDoc(PyStr(Root), PyDict(TypeA :> PyDict(V_1_0 :> UserSchema)))
\* a version key that does not parse
DocBadVersion == MakeDoc(PyStr(Root), PyDict(TypeA :> PyDict(V_1 :> UserSchema)))

LifeDocs == {DocComplete, DocBadVersion}

\* the schema of FormatValidator (format_schema.yaml)
FormatSchema ==
    PyDict((K_type :> PyStr(T_object))
        @@ (K_required :> PyList(<<PyStr(F_id), PyStr(F_name)>>))
        @@ (K_properties :> PyDict(
                (F_id :> PyDict(K_type :> PyStr(T_string)))
             @@ (F_name :> PyDict(K_type :> PyStr(T_string))))))

Pointer(ty, version) ==
    <<"#", "/">> \o K_schemas \o <<"/">> \o ty \o <<"/">> \o version

OtherRoot == <<"h", ":", "q">>

SchemaRefs ==
    { Root \o Pointer(TypeA, V_1_0),            \* the sub-schema of DocComplete
      Root \o Pointer(TypeA, V_1),              \* the sub-schema of DocBadVersion
      Root \o Pointer(TypeB, V_1_0),            \* an unknown message type
      Root,                                     \* the document itself
      Root \o <<"2">> \o Pointer(TypeA, V_1_0), \* another url with the root as prefix
      OtherRoot \o Pointer(TypeA, V_1_0),       \* another schema family
      SubSeq(Root, 1, Len(Root) - 1) }          \* shorter than the root

\* what fetching a url may give; a url of the store is not fetched
RemoteResults(doc, ref) ==
    IF UrlPart(ref) = doc.d[K_id].s THEN {RemoteFailed}
    ELSE {RemoteFailed, DocComplete}

IdValues == {PyStr(CanonUuid), PyStr(BadUuid), PyInt(5)}
NameValues == {PyStr(<<"a">>), PyInt(7)}
TagValues == {PyStr(<<"x">>)}

FieldValues(f) ==
    CASE f = F_id -> IdValues [] f = F_name -> NameValues [] f = F_tag -> TagValues

Fields == {F_id, F_name, F_tag}

\* payloads: name is always there, id and tag may be left out
PayloadDicts ==
    UNION {{PyDict(g) : g \in {g \in [fs -> IdValues \cup NameValues \cup TagValues] :
                                  \A f \in fs : g[f] \in FieldValues(f)}} :
           fs \in {fs \in SUBSET Fields : F_name \in fs}}

Payloads == PayloadDicts \cup {PyInt(1)}

Messages == [schema : SchemaRefs, data : Payloads]

\* what an application registers on MessageValidator.checker
AppRegistrations ==
    {<<F_human_uuid, "check_human_uuid">>,
     <<F_custom, "reject_strings">>, <<F_custom, "accept_all">>}

(***************************************************************************)
(* Life cycle: import of the module, registrations, construction,          *)
(* check_schema, validate.  A call runs to its end before the next starts. *)
(***************************************************************************)
Quiescent == imp = "loaded" /\ pc \in {"idle", "done"}

\* line 18, when the class body runs: checker = FormatChecker()
ClassBody_Checker ==
    /\ imp = "line18"
    /\ checker' = NewFormatChecker(clsCheckers)
    /\ imp' = "line91"
    /\ UNCHANGED <<clsCheckers, lastReg, validator, checked, call>>
    /\ UNCHANGED <<uuidVars, checkVars>>

\* lines 90-92, later in the class body:
\* @FormatChecker.cls_checks('human-uuid') on check_human_uuid
ClassBody_ClsChecks ==
    /\ imp = "line91"
    /\ clsCheckers' = Checks(clsCheckers, F_human_uuid, "check_human_uuid")
    /\ imp' = "loaded"
    /\ UNCHANGED <<checker, lastReg, validator, checked, call>>
    /\ UNCHANGED <<uuidVars, checkVars>>

\* an application defines one more format checker on MessageValidator.checker
\* (the customisation the docstring of lines 19-22 speaks of)
RegisterFormat ==
    /\ Quiescent
    /\ \E r \in AppRegistrations :
          /\ checker' = Checks(checker, r[1], r[2])
          /\ lastReg' = [format |-> r[1], pred |-> r[2]]
    /\ call' = NoCall
    /\ UNCHANGED <<imp, clsCheckers, validator, checked>>
    /\ UNCHANGED <<uuidVars, checkVars>>

\* lines 24-37: MessageValidator(schema)
Construct ==
    /\ Quiescent
    /\ \E arg \in LifeDocs \cup {None, EmptyDict}, fileDoc \in LifeDocs :
          validator' = init_schema(arg, fileDoc)
    /\ call' = NoCall
    /\ UNCHANGED <<imp, clsCheckers, checker, lastReg, checked>>
    /\ UNCHANGED <<uuidVars, checkVars>>

\* a caller starts MessageValidator.check_schema(doc)
CallCheckSchema ==
    /\ Quiescent
    /\ \E doc \in LifeDocs : schema' = doc
    /\ pc' = "line61"
    /\ msg_types_found' = <<>> /\ errors' = <<>>
    /\ todoTypes' = {} /\ curType' = <<>> /\ todoVersions' = {} /\ todoFlags' = {}
    /\ raised' = NoRaise
    /\ call' = NoCall
    /\ UNCHANGED <<routing, uuidVars, imp, clsCheckers, checker, lastReg,
                   validator, checked>>

\* lines 43-57: validator.validate(message)
Validate ==
    /\ Quiescent
    /\ validator # NoDoc
    /\ \E message \in Messages :
          \E remote \in RemoteResults(validator, message.schema) :
             call' = validate(validator, checker, message, remote)
    /\ UNCHANGED <<imp, clsCheckers, checker, lastReg, validator, checked>>
    /\ UNCHANGED <<uuidVars, checkVars>>

\* lines 107-110: FormatValidator().validate(data)
FormatValidate ==
    /\ Quiescent
    /\ \E data \in Payloads : call' = format_validate(FormatSchema, data)
    /\ UNCHANGED <<imp, clsCheckers, checker, lastReg, validator, checked>>
    /\ UNCHANGED <<uuidVars, checkVars>>

(***************************************************************************)
(* Idle values of the parts a specification does not exercise              *)
(***************************************************************************)
\* settings.HEDWIG_MESSAGE_ROUTING of the life-cycle specification
LifeRouting == {<<TypeA, 1>>}

UuidIdle == instance = None /\ result = Pending

CheckIdle ==
    /\ schema = NoDoc /\ routing = LifeRouting /\ pc = "idle"
    /\ msg_types_found = <<>> /\ errors = <<>>
    /\ todoTypes = {} /\ curType = <<>> /\ todoVersions = {} /\ todoFlags = {}
    /\ raised = NoRaise

LifeIdle ==
    /\ imp = "idle" /\ clsCheckers = <<>> /\ checker = <<>>
    /\ lastReg = None /\ validator = NoDoc /\ checked = <<>>
    /\ call = NoCall

(***************************************************************************)
(* Specification of one call of check_human_uuid                           *)
(***************************************************************************)
InitUuid ==
    /\ instance \in UuidInputs
    /\ result = Pending
    /\ CheckIdle
    /\ LifeIdle

CallCheckHumanUuid ==
    /\ result = Pending
    /\ result' = PyBool(check_human_uuid(instance))
    /\ UNCHANGED <<instance, checkVars, lifeVars>>

NextUuid == CallCheckHumanUuid

SpecUuid == InitUuid /\ [][NextUuid]_vars

\* C6: check_human_uuid returns true for a non-string and, for a string,
\* true iff the string is exactly the 36-character 8-4-4-4-12 lowercase
\* hexadecimal form (nothing before it, nothing after it).
C6_UuidExact ==
    result # Pending =>
        result.b = (~IsStr(instance) \/ IsCanonicalForm(instance.s))

(***************************************************************************)
(* Specification of one call of check_schema                               *)
(***************************************************************************)
InitCheckSchema ==
    /\ schema \in CheckDocs
    /\ routing \in SUBSET RoutingPool
    /\ pc = "line61"
    /\ msg_types_found = <<>> /\ errors = <<>>
    /\ todoTypes = {} /\ curType = <<>> /\ todoVersions = {} /\ todoFlags = {}
    /\ raised = NoRaise
    /\ UuidIdle
    /\ LifeIdle

SpecCheckSchema == InitCheckSchema /\ [][CheckSchemaStep]_vars

\* ---- the quantities the completeness claims speak of, read off the
\* ---- document itself
SchemasOf(doc) == DictGet(doc, K_schemas)

\* the message types of a document whose 'schemas' is a non-empty mapping
TypesOf(doc) ==
    IF IsDict(SchemasOf(doc)) THEN DOMAIN SchemasOf(doc).d ELSE {}

\* the message types whose value is a non-empty mapping of versions
WellFormedTypes(doc) ==
    {ty \in TypesOf(doc) :
        IsDict(SchemasOf(doc).d[ty]) /\ Truthy(SchemasOf(doc).d[ty])}

VersionKeys(doc, ty) == DOMAIN SchemasOf(doc).d[ty].d

\* (type, major) has a matching schema entry
Covered(doc, ty, major) ==
    /\ ty \in WellFormedTypes(doc)
    /\ \E v \in VersionKeys(doc, ty) :
          StrictVersion(v).ok /\ StrictVersion(v).major = major

\* K: required pairs with no matching schema entry
CountMissing(doc, required) ==
    Cardinality({k \in required : ~Covered(doc, k[1], k[2])})

\* M: version strings that do not parse
CountMalformed(doc) ==
    Cardinality({<<ty, v>> \in UNION {{<<ty, v>> : v \in VersionKeys(doc, ty)} :
                                        ty \in WellFormedTypes(doc)} :
                    ~StrictVersion(v).ok})

\* S: missing/empty 'schemas'; message types whose value is not a
\* non-empty mapping
CountStructural(doc) ==
    (IF K_schemas \notin DOMAIN doc.d \/ SchemasOf(doc) = EmptyDict THEN 1 ELSE 0)
    + Cardinality(TypesOf(doc) \ WellFormedTypes(doc))

ExpectedCount == 
    CountMissing(schema, routing) + CountMalformed(schema) + CountStructural(schema)

CountIsExact ==
    IF ExpectedCount = 0
    THEN raised = NoRaise
    ELSE /\ raised.exc = "SchemaError"
         /\ Len(raised.errors) = ExpectedCount

\* C2: one call of check_schema raises SchemaError with exactly K + M + S
\* entries, all collected in one pass, and raises nothing exactly when
\* K + M + S = 0, for every schema document.  Stated here for the documents
\* that pass the generic check of line 61 only, which raises on its first
\* error by design.
C2_ExhaustiveCount ==
    (pc = "done" /\ MetaSchemaErrors(schema) = <<>>) => CountIsExact

\* the count is exact when, besides, 'schemas' is missing, falsy or a mapping
ExhaustiveForMappings ==
    ( /\ pc = "done"
      /\ MetaSchemaErrors(schema) = <<>>
      /\ (~Truthy(SchemasOf(schema)) \/ IsDict(SchemasOf(schema))) )
    => CountIsExact

\* the runs of check_schema that get to its last statement
ReachedEnd == pc = "done" /\ raised.exc \in {"none", "SchemaError"}
                          /\ (raised.exc = "SchemaError" => raised.origin = "hedwig")

\* the found-flags are defined from line 63 on
FlagsExist == pc \in {"line67", "line70", "line75", "line83"} \/ ReachedEnd

\* the keys of the found-flags are the required pairs
KeysAreRequired == FlagsExist => DOMAIN msg_types_found = routing

\* a step of check_schema adds no flag and lowers none
FlagsOnlyRise ==
    (FlagsExist /\ FlagsExist') =>
        /\ DOMAIN msg_types_found' = DOMAIN msg_types_found
        /\ \A k \in DOMAIN msg_types_found : msg_types_found[k] => msg_types_found'[k]

NotFoundErrors == {errors[i] : i \in {j \in 1..Len(errors) : errors[j].e = "not_found"}}

\* the pairs reported at the end are the required pairs that are not covered
ReportedIffUncovered ==
    ReachedEnd =>
        /\ \A k \in routing :
              (ErrNotFound(k[1], k[2]) \in NotFoundErrors) <=> ~Covered(schema, k[1], k[2])
        /\ \A err \in NotFoundErrors : <<err.msg_type, err.major_version>> \in routing

\* C10: throughout check_schema the keys of the found-flags are the required
\* pairs, a flag only goes from false to true, and at the end a required
\* pair is reported 'Schema not found' iff no version key of a well-formed
\* version mapping of its type parses with that first integer component.
C10_FoundFlags ==
    /\ [](KeysAreRequired /\ ReportedIffUncovered)
    /\ [][FlagsOnlyRise]_vars

\* a run that ends with one pair covered and another reported, over a
\* document that also has a version with the right minor but wrong major
C10_Witness ==
    /\ ReachedEnd
    /\ \E k \in routing : msg_types_found[k]
    /\ \E k \in routing : ~msg_types_found[k] /\ k[1] \in WellFormedTypes(schema)
    /\ \E i \in 1..Len(errors) : errors[i].e = "not_found"
    /\ \E i \in 1..Len(errors) : errors[i].e = "invalid_version"
    /\ \E i \in 1..Len(errors) : errors[i].e = "invalid_definition"

(***************************************************************************)
(* Specification of the life cycle                                         *)
(***************************************************************************)
Init ==
    /\ imp = "line18"
    /\ clsCheckers = BuiltinClsCheckers
    /\ checker = <<>>
    /\ lastReg = None
    /\ validator = NoDoc
    /\ checked = <<>>
    /\ call = NoCall
    /\ CheckIdle
    /\ UuidIdle

Next ==
    \/ ClassBody_Checker
    \/ ClassBody_ClsChecks
    \/ RegisterFormat
    \/ Construct
    \/ CallCheckSchema
    \/ CheckSchemaStep
    \/ Validate
    \/ FormatValidate

Spec == Init /\ [][Next]_vars

(***************************************************************************)
(* Properties of the life cycle                                            *)
(***************************************************************************)
\* a call of MessageValidator.validate has just ended
Called == call # NoCall /\ call.op = "validate"

RootMismatch == Called /\ ~StartsWith(call.message.schema, schema_root(call.doc))

\* check_schema has run on the document and raised nothing
CheckedOk(doc) == doc \in DOMAIN checked /\ checked[doc] = "none"

\* C1: no call of validate gets to reference resolution or to structural
\* checking unless check_schema has run, and succeeded, on the validator's
\* schema document.
C1_CheckedBeforeValidate ==
    (Called /\ (call.resolveAttempted \/ call.structChecked)) => CheckedOk(call.doc)

\* C3: a message whose schema reference does not start with the root id
\* fails with ValidationError before any lookup and with no structural
\* checking, whatever the payload and the rest of the reference.
C3_RootMismatchShortCircuits ==
    RootMismatch =>
        /\ call.outcome = "ValidationError"
        /\ ~call.resolveAttempted
        /\ ~call.structChecked

\* a reference of another schema family whose pointer exists, with a payload
\* that would not pass
C3_Witness ==
    /\ RootMismatch
    /\ call.message.schema = OtherRoot \o Pointer(TypeA, V_1_0)
    /\ call.message.data = PyInt(1)
    /\ call.doc = DocComplete

FormatOf(sch, f) == DictGet(sch.d[K_properties].d[f], K_format)

ViolatedConstraints(x, sch, table) ==
    IF ~IsDict(x) THEN {<<<<>>, "type">>}
    ELSE {<<f, "required">> : f \in {F_id, F_name} \ DOMAIN x.d}
         \cup {<<f, "type">> :
                 f \in {f \in DOMAIN x.d \cap DOMAIN sch.d[K_properties].d : ~IsStr(x.d[f])}}
         \cup {<<f, "format">> :
                 f \in {f \in DOMAIN x.d \cap DOMAIN sch.d[K_properties].d :
                          /\ table # NoChecker
                          /\ FormatOf(sch, f) # None
                          /\ FormatOf(sch, f).s \in DOMAIN table
                          /\ ~ApplyPred(table[FormatOf(sch, f).s], x.d[f])}}

\* C5: a structural check (validate after resolution, FormatValidator's
\* validate) raises ValidationError with every violation of the input
\* exactly when there is one, and returns exactly when there is none; n
\* independent violations give n entries.
C5_CollectAll ==
    (call # NoCall /\ call.structChecked) =>
        LET full == IterErrors(call.message.data, call.resolution.value,
                               call.registry, <<>>)
        IN  /\ (full # <<>>) <=> (call.outcome = "ValidationError")
            /\ (full = <<>>) <=> (call.outcome = "returned")
            /\ call.errors = full
            /\ call.resolution.value \in {UserSchema, FormatSchema} =>
                  Len(call.errors) =
                     Cardinality(ViolatedConstraints(call.message.data,
                                                     call.resolution.value,
                                                     call.registry))

\* a message with three independent violations
C5_Witness ==
    /\ Called
    /\ call.structChecked
    /\ call.outcome = "ValidationError"
    /\ Len(call.errors) = 3

\* C7: the registry validate consults holds the built-in human-uuid
\* predicate before any check: a string id that is no UUID is a violation
\* on id, and a matching one validates.
C7_HumanUuidSeeded ==
    ( /\ Called
      /\ call.structChecked
      /\ call.resolution.value = UserSchema
      /\ IsDict(call.message.data)
      /\ F_id \in DOMAIN call.message.data.d
      /\ call.message.data.d[F_id] = PyStr(BadUuid) )
    => ( /\ F_human_uuid \in DOMAIN call.registry
         /\ call.outcome = "ValidationError"
         /\ \E i \in 1..Len(call.errors) :
               call.errors[i] = Violation(<<F_id>>, "format", F_human_uuid) )

\* C8: a ValidationError for a root mismatch or an unresolved reference has
\* no records; one for structural violations has all of them, and at least
\* one.
C8_RecordsByCause ==
    (Called /\ call.outcome = "ValidationError") =>
        IF ~call.structChecked
        THEN call.errors = <<>>
        ELSE /\ call.errors # <<>>
             /\ call.errors = IterErrors(call.message.data, call.resolution.value,
                                         call.registry, <<>>)

\* a reference outside the store whose fetch failed
C8_Witness ==
    /\ Called
    /\ call.message.schema = Root \o <<"2">> \o Pointer(TypeA, V_1_0)
    /\ call.resolveAttempted /\ ~call.resolution.ok
    /\ call.outcome = "ValidationError"
    /\ call.errors = <<>>

\* C9: a format that is not registered passes for every value, so it never
\* gives a violation; after a registration the entry of the name is the
\* predicate registered last.
C9_UnregisteredPasses ==
    /\ Called =>
          \A i \in 1..Len(call.errors) :
             call.errors[i].keyword = "format" =>
                call.errors[i].detail \in DOMAIN call.registry
    /\ lastReg # None =>
          /\ lastReg.format \in DOMAIN checker
          /\ checker[lastReg.format] = lastReg.pred

\* a tagged field of an unregistered format in a payload that validates,
\* after a registration
C9_Witness ==
    /\ Called
    /\ call.structChecked
    /\ call.resolution.value = UserSchema
    /\ IsDict(call.message.data)
    /\ F_tag \in DOMAIN call.message.data.d
    /\ F_custom \notin DOMAIN call.registry
    /\ call.outcome = "returned"
    /\ lastReg # None

====
